---------------------------- MODULE Spec2Model ----------------------------
(***************************************************************************)
(* TelemLogger-Explorer: the telemetry pipeline of src/telemExplorer.py    *)
(* (GUI variant) and src/main.py (command-line variant).                   *)
(*                                                                         *)
(* Python values are tagged records: PyNone, PyStr(chars), PyInt(n).       *)
(* A string is the sequence of its characters; a character is its rank in  *)
(* code-point order among the characters used here: the digits '0'..'9'    *)
(* are 0..9 and ':' (which follows '9' in ASCII) is Colon.  A dict is the  *)
(* sequence of its <<key, value>> items in insertion order.  A call        *)
(* returns Return(v) or ends in Raise(exception name).                     *)
(***************************************************************************)
EXTENDS Integers, Sequences, FiniteSets, TLC

VARIABLES
    op,                   \* the operation that has run ("init": none yet)
    data,                 \* the record sequence handed to the operation
    from_time, to_time,   \* the filter bounds
    downsample,           \* downsample factor (csv rows / kml track)
    add_placemarks,       \* export_kml: add_placemarks
    placemark_downsample, \* export_kml: placemark_downsample
    keys_to_include,      \* write_json_to_csv: keys_to_include
    tcs,                  \* timecode strings handed to the codec
    ret,                  \* outcome of the operation
    dest,                 \* the destination file (NoFile or its content)
    self_folder_path,     \* Application.folder_path (Unset: no attribute)
    self_json_data,       \* Application.json_data
    buttons,              \* state option of the four buttons made disabled
    fs                    \* the folders on disk the dialog can pick

\* the state of the graphical shell
gui == <<self_folder_path, self_json_data, buttons, fs>>

vars == <<op, data, from_time, to_time, downsample, add_placemarks,
          placemark_downsample, keys_to_include, tcs, ret, dest,
          self_folder_path, self_json_data, buttons, fs>>

-----------------------------------------------------------------------------
(* Bounds of the model *)

MaxRecords == 2

MaxCsvRecords == 3

MaxKmlRecords == 3

MaxDownsample == 2

MaxHour == 1

MaxFiles == 1

-----------------------------------------------------------------------------
(* Python values, outcomes, dicts *)

PyNone == [kind |-> "None"]

PyStr(s) == [kind |-> "str", chars |-> s]

PyInt(n) == [kind |-> "int", int |-> n]

Return(v) == [status |-> "ok", value |-> v]

Raise(e) == [status |-> e]

\* truth value of `if x`: None, '' and 0 are false
Truthy(v) ==
    CASE v.kind = "None" -> FALSE
      [] v.kind = "str"  -> v.chars # <<>>
      [] v.kind = "int"  -> v.int # 0

\* key in d
HasKey(d, k) == \E i \in 1..Len(d) : d[i][1] = k

\* d[k], for a key that is present
Item(d, k) == d[CHOOSE i \in 1..Len(d) : d[i][1] = k][2]

\* d.keys(), in insertion order
Keys(d) == [i \in 1..Len(d) |-> d[i][1]]

\* all sequences over S of length at most n
SeqsUpTo(S, n) == UNION {[1..k -> S] : k \in 0..n}

\* a destination path at which nothing has been created
NoFile == [exists |-> FALSE]

\* self.folder_path before select_folder has set it (hasattr is false)
Unset == [kind |-> "unset"]

Buttons == {"unzip_files", "refresh_data", "export_csv", "export_kml"}

\* Application.__init__: create_widgets makes the four buttons disabled,
\* then json_data = []
WidgetsCreated ==
    /\ self_folder_path = Unset
    /\ self_json_data = <<>>
    /\ buttons = [b \in Buttons |-> "disabled"]

-----------------------------------------------------------------------------
(* Strings *)

Colon == 10

\* two-digit zero-padded decimal, as the spin boxes' format '%02.0f' gives
Pad2(n) == <<(n \div 10) % 10, n % 10>>

\* f"{hh}:{mm}:{ss}:{ff}" of zero-padded components
TcText(t) ==
    Pad2(t[1]) \o <<Colon>> \o Pad2(t[2]) \o <<Colon>> \o Pad2(t[3])
        \o <<Colon>> \o Pad2(t[4])

\* a <= b for str: code-point lexicographic order, a proper prefix is smaller
RECURSIVE StrLeq(_, _)
StrLeq(a, b) ==
    IF a = <<>> THEN TRUE
    ELSE IF b = <<>> THEN FALSE
    ELSE IF Head(a) # Head(b) THEN Head(a) < Head(b)
    ELSE StrLeq(Tail(a), Tail(b))

\* s.split(':'): cur is the part being read, acc the parts already closed
RECURSIVE SplitFrom(_, _, _)
SplitFrom(s, cur, acc) ==
    IF s = <<>> THEN Append(acc, cur)
    ELSE IF Head(s) = Colon THEN SplitFrom(Tail(s), <<>>, Append(acc, cur))
    ELSE SplitFrom(Tail(s), Append(cur, Head(s)), acc)

Split(s) == SplitFrom(s, <<>>, <<>>)

\* int(part) of a non-empty digit string
RECURSIVE DigitsValue(_, _)
DigitsValue(part, acc) ==
    IF part = <<>> THEN acc
    ELSE DigitsValue(Tail(part), acc * 10 + Head(part))

\* int(part): ValueError on the empty string
IntOf(part) ==
    IF part = <<>> THEN Raise("ValueError") ELSE Return(DigitsValue(part, 0))

-----------------------------------------------------------------------------
(* Timecode codec: telemExplorer.py timecode_to_milliseconds *)

FrameRate == 30

\* round(x * 1000 / 30): the frame term rounded to the nearest integer
FrameMillisRounded(frames) == (frames * 1000 + FrameRate \div 2) \div FrameRate

\* int(x * (1000 / 30)) for x >= 0: the float product truncated
FrameMillis(frames) == (frames * 1000) \div FrameRate

Milliseconds(hours, minutes, seconds, frames) ==
    (hours * 3600 + minutes * 60 + seconds) * 1000 + FrameMillis(frames)

timecode_to_milliseconds(timecode) ==
    LET parts == Split(timecode.chars)
        ints  == [i \in 1..Len(parts) |-> IntOf(parts[i])]
    IN  IF \E i \in 1..Len(parts) : ints[i].status # "ok"
        THEN Raise("ValueError")        \* int('') in the comprehension
        ELSE IF Len(parts) # 4
        THEN Raise("ValueError")        \* unpacking into four names
        ELSE Return(Milliseconds(ints[1].value, ints[2].value,
                                 ints[3].value, ints[4].value))

-----------------------------------------------------------------------------
(* Range filter: telemExplorer.py filter_data *)

\* `timecode_to_milliseconds(t) if t else None`
BoundMillis(t) ==
    IF Truthy(t)
    THEN LET r == timecode_to_milliseconds(t)
         IN  IF r.status = "ok" THEN Return(PyInt(r.value)) ELSE r
    ELSE Return(PyNone)

InRange(from_time_ms, tc_ms, to_time_ms) ==
    /\ (from_time_ms.kind = "None" \/ from_time_ms.int <= tc_ms)
    /\ (to_time_ms.kind = "None" \/ tc_ms <= to_time_ms.int)

\* the for loop over data[i..], filtered_data being the list built so far
RECURSIVE FilterLoop(_, _, _, _, _)
FilterLoop(d, i, from_time_ms, to_time_ms, filtered_data) ==
    IF i > Len(d) THEN Return(filtered_data)
    ELSE IF ~HasKey(d[i], "tc") THEN Raise("KeyError")
    ELSE LET tc_ms == timecode_to_milliseconds(Item(d[i], "tc"))
         IN  IF tc_ms.status # "ok" THEN tc_ms
             ELSE FilterLoop(d, i + 1, from_time_ms, to_time_ms,
                     IF InRange(from_time_ms, tc_ms.value, to_time_ms)
                     THEN Append(filtered_data, d[i])
                     ELSE filtered_data)

filter_data(d, from, to) ==
    LET from_time_ms == BoundMillis(from)
        to_time_ms   == BoundMillis(to)
    IN  IF from_time_ms.status # "ok" THEN from_time_ms
        ELSE IF to_time_ms.status # "ok" THEN to_time_ms
        ELSE FilterLoop(d, 1, from_time_ms.value, to_time_ms.value, <<>>)

-----------------------------------------------------------------------------
(* Range filter: main.py filter_data (compares the strings themselves) *)

\* the comparison, were the to bound exclusive (tc < to_time)
MainKeepsBelow(tc, from, to) ==
    /\ (from.kind = "None" \/ StrLeq(from.chars, tc.chars))
    /\ (to.kind = "None" \/ (StrLeq(tc.chars, to.chars) /\ tc # to))

\* the comparison one list comprehension applies to entry['tc']
MainKeeps(tc, from, to) ==
    /\ (from.kind = "None" \/ StrLeq(from.chars, tc.chars))
    /\ (to.kind = "None" \/ StrLeq(tc.chars, to.chars))

RECURSIVE MainComprehension(_, _, _, _, _)
MainComprehension(d, i, from, to, acc) ==
    IF i > Len(d) THEN Return(acc)
    ELSE IF ~HasKey(d[i], "tc") THEN Raise("KeyError")
    ELSE MainComprehension(d, i + 1, from, to,
             IF MainKeeps(Item(d[i], "tc"), from, to)
             THEN Append(acc, d[i]) ELSE acc)

main_filter_data(d, from, to) ==
    IF from.kind = "None" /\ to.kind = "None" THEN Return(d)
    ELSE MainComprehension(d, 1, from, to, <<>>)

-----------------------------------------------------------------------------
(* Inputs of the filter *)

\* (H, M, S, F) of the timecodes used: frame 29 against the next second,
\* seconds of 60 and 61 (accepted by the codec) against the next minute, and
\* the last frame of an hour against the next hour
FilterTimecodes ==
    {<<0, 0, 0, 0>>, <<0, 0, 0, 29>>, <<0, 0, 1, 0>>, <<0, 0, 60, 0>>,
     <<0, 0, 61, 0>>, <<0, 1, 0, 0>>, <<0, 59, 59, 29>>, <<1, 0, 0, 0>>}

\* "00:00": two components only
MalformedText == Pad2(0) \o <<Colon>> \o Pad2(0)

TcRecord(s) == << <<"tc", PyStr(s)>> >>

FilterRecords ==
    {TcRecord(TcText(t)) : t \in FilterTimecodes}
        \cup {TcRecord(MalformedText), << <<"speed", PyInt(1)>> >>}

FilterBounds ==
    {PyNone, PyStr(<<>>), PyStr(MalformedText)}
        \cup {PyStr(TcText(t)) : t \in FilterTimecodes}

-----------------------------------------------------------------------------
(* Specification of the filter: one call of either implementation *)

Idle ==
    /\ op = "init"
    /\ ret = PyNone
    /\ dest = NoFile
    /\ WidgetsCreated
    /\ fs = <<>>

NoFilterArgs == from_time = PyNone /\ to_time = PyNone

NoExportArgs ==
    /\ downsample = 0
    /\ add_placemarks = FALSE
    /\ placemark_downsample = 0
    /\ keys_to_include = PyNone

InitFilter ==
    /\ Idle
    /\ NoExportArgs
    /\ tcs = <<>>
    /\ data \in SeqsUpTo(FilterRecords, MaxRecords)
    /\ from_time \in FilterBounds
    /\ to_time \in FilterBounds

TelemFilter ==
    /\ op = "init"
    /\ op' = "telemExplorer.filter_data"
    /\ ret' = filter_data(data, from_time, to_time)
    /\ UNCHANGED <<data, from_time, to_time, downsample, add_placemarks,
                   placemark_downsample, keys_to_include, tcs, dest>>
    /\ UNCHANGED gui

MainFilter ==
    /\ op = "init"
    /\ op' = "main.filter_data"
    /\ ret' = main_filter_data(data, from_time, to_time)
    /\ UNCHANGED <<data, from_time, to_time, downsample, add_placemarks,
                   placemark_downsample, keys_to_include, tcs, dest>>
    /\ UNCHANGED gui

NextFilter == TelemFilter \/ MainFilter

SpecFilter == InitFilter /\ [][NextFilter]_vars

-----------------------------------------------------------------------------
(* Properties of the range filter *)

FilterOps == {"telemExplorer.filter_data", "main.filter_data"}

\* the filter that has run, applied to other arguments
RanFilter(d, from, to) ==
    IF op = "main.filter_data"
    THEN main_filter_data(d, from, to)
    ELSE filter_data(d, from, to)

Parses(t) == t.kind = "str" /\ timecode_to_milliseconds(t).status = "ok"

ToMillis(t) == timecode_to_milliseconds(t).value

\* a bound is absent (None) or a timecode the codec accepts
BoundGiven(b) == b.kind = "None" \/ Parses(b)

\* every record carries a timecode the codec accepts
AllTimecoded(d) ==
    \A i \in 1..Len(d) : HasKey(d[i], "tc") /\ Parses(Item(d[i], "tc"))

FilterCase ==
    /\ op \in FilterOps
    /\ BoundGiven(from_time) /\ BoundGiven(to_time)
    /\ AllTimecoded(data)

\* the inclusion test of the specification, on millisecond values
Included(r, from, to) ==
    /\ (from.kind = "None" \/ ToMillis(from) <= ToMillis(Item(r, "tc")))
    /\ (to.kind = "None" \/ ToMillis(Item(r, "tc")) <= ToMillis(to))

IncludedRecords(d, from, to) ==
    SelectSeq(d, LAMBDA r : Included(r, from, to))

\* s is a subsequence of t (same relative order, nothing added)
RECURSIVE IsSubsequence(_, _)
IsSubsequence(s, t) ==
    IF s = <<>> THEN TRUE
    ELSE IF t = <<>> THEN FALSE
    ELSE IF Head(s) = Head(t) THEN IsSubsequence(Tail(s), Tail(t))
    ELSE IsSubsequence(s, Tail(t))

\* the bound (f2, t2) is (f, t) shrunk: from kept or raised to a later
\* time, to kept or lowered to an earlier time
Shrinks(f, t, f2, t2) ==
    /\ BoundGiven(f2) /\ BoundGiven(t2)
    /\ \/ f2 = f
       \/ f.kind = "None"
       \/ f2.kind # "None" /\ ToMillis(f) < ToMillis(f2)
    /\ \/ t2 = t
       \/ t.kind = "None"
       \/ t2.kind # "None" /\ ToMillis(t2) < ToMillis(t)

\* C1: filter_data (either implementation) returns exactly the records whose
\* timecode, in milliseconds, lies within the inclusive bounds; an absent
\* bound does not restrict.
C1_FilterExact ==
    FilterCase => ret = Return(IncludedRecords(data, from_time, to_time))

\* C1, for telemExplorer.py's filter_data alone (this much holds).
C1_TelemFilterExact ==
    (FilterCase /\ op = "telemExplorer.filter_data")
        => ret = Return(IncludedRecords(data, from_time, to_time))

\* C2: the result of filter_data (either implementation) is a subsequence of
\* the input, no shrunk bound yields a longer result, and with both bounds
\* absent the result is the input.
C2_FilterMonotone ==
    FilterCase =>
        /\ ret.status = "ok"
        /\ IsSubsequence(ret.value, data)
        /\ \A f2 \in FilterBounds, t2 \in FilterBounds :
               Shrinks(from_time, to_time, f2, t2)
                   => Len(RanFilter(data, f2, t2).value) <= Len(ret.value)
        /\ (from_time = PyNone /\ to_time = PyNone => ret.value = data)

\* C2, for telemExplorer.py's filter_data alone (this much holds).
C2_TelemFilterMonotone ==
    op = "telemExplorer.filter_data" => C2_FilterMonotone

-----------------------------------------------------------------------------
(* Tabular export: telemExplorer.py write_json_to_csv, main.py export_csv *)

\* a % b of Python for b # 0: the result takes the sign of the divisor
PyMod(a, b) == IF b > 0 THEN a % b ELSE -((-a) % (-b))

\* the test were positions counted from one: (index + 1) % (downsample + 1)
RetainsOneBased(index, factor) == PyMod(index + 1, factor + 1) = 0

\* `index % (downsample + 1)` is zero, for downsample + 1 # 0
Retains(index, factor) == PyMod(index, factor + 1) = 0

\* str(n) for n >= 0: the decimal digits
RECURSIVE Digits(_)
Digits(n) == IF n < 10 THEN <<n>> ELSE Append(Digits(n \div 10), n % 10)

\* the text csv.writer puts in a cell: '' for None, str(v) otherwise
CsvCell(v) ==
    CASE v.kind = "None" -> <<>>
      [] v.kind = "str"  -> v.chars
      [] v.kind = "int"  -> Digits(v.int)

\* json_obj.get(key, '')
GetOrEmpty(json_obj, key) ==
    IF HasKey(json_obj, key) THEN Item(json_obj, key) ELSE PyStr(<<>>)

\* [json_obj.get(key, '') for key in keys], as written by writer.writerow
CsvRow(json_obj, keys) ==
    [k \in 1..Len(keys) |-> CsvCell(GetOrEmpty(json_obj, keys[k]))]

\* a file opened for writing: created or truncated, header and rows follow
CsvFile(header, rows) == [exists |-> TRUE, header |-> header, rows |-> rows]

Done(outcome, file) == [ret |-> outcome, dest |-> file]

\* the loop of write_json_to_csv from list position i (index = i - 1); the
\* with-block closes the file, so what was written stays when it raises
RECURSIVE WriteRows(_, _, _, _, _)
WriteRows(json_data, i, factor, keys, rows) ==
    IF i > Len(json_data) THEN Done(Return(PyNone), CsvFile(<<keys>>, rows))
    ELSE IF factor + 1 = 0
    THEN Done(Raise("ZeroDivisionError"), CsvFile(<<keys>>, rows))
    ELSE WriteRows(json_data, i + 1, factor, keys,
             IF Retains(i - 1, factor)
             THEN Append(rows, CsvRow(json_data[i], keys))
             ELSE rows)

write_json_to_csv(json_data, factor, keys) ==
    IF keys.kind = "None"
    THEN IF json_data = <<>>
         THEN Done(Raise("IndexError"), CsvFile(<<>>, <<>>))
         ELSE WriteRows(json_data, 1, factor, Keys(json_data[1]), <<>>)
    ELSE WriteRows(json_data, 1, factor, keys.list, <<>>)

\* csv.DictWriter.writerow with the default extrasaction='raise' and
\* restval='': a key outside fieldnames is a ValueError
RECURSIVE DictWriteRows(_, _, _, _)
DictWriteRows(d, i, keys, rows) ==
    IF i > Len(d) THEN Done(Return(PyNone), CsvFile(<<keys>>, rows))
    ELSE IF \E k \in 1..Len(d[i]) :
                 \A j \in 1..Len(keys) : keys[j] # d[i][k][1]
    THEN Done(Raise("ValueError"), CsvFile(<<keys>>, rows))
    ELSE DictWriteRows(d, i + 1, keys, Append(rows, CsvRow(d[i], keys)))

main_export_csv(d) ==
    IF d # <<>>
    THEN DictWriteRows(d, 1, Keys(d[1]), <<>>)
    ELSE Done(Return(PyNone), NoFile)

-----------------------------------------------------------------------------
(* Inputs of the tabular export *)

PyList(l) == [kind |-> "list", list |-> l]

\* records of differing field sets and key order
CsvRecords ==
    { << <<"tc", PyStr(TcText(<<0, 0, 0, 0>>))>>, <<"speed", PyInt(5)>> >>,
      << <<"tc", PyStr(TcText(<<0, 0, 1, 0>>))>> >>,
      << <<"speed", PyInt(12)>>, <<"tc", PyStr(TcText(<<0, 0, 2, 0>>))>>,
         <<"alt", PyNone>> >> }

CsvKeySets == {PyNone, PyList(<<"tc">>), PyList(<<"speed", "tc">>)}

DownsampleFactors == (-3)..MaxDownsample

-----------------------------------------------------------------------------
(* Calls of the tabular exporters *)

InitCsv ==
    /\ Idle
    /\ NoFilterArgs
    /\ tcs = <<>>
    /\ add_placemarks = FALSE
    /\ placemark_downsample = 0
    /\ data \in SeqsUpTo(CsvRecords, MaxCsvRecords)
    /\ downsample \in DownsampleFactors
    /\ keys_to_include \in CsvKeySets

\* write_json_to_csv takes no placemark option
TelemCsv ==
    /\ op = "init"
    /\ ~add_placemarks
    /\ placemark_downsample = 0
    /\ op' = "telemExplorer.write_json_to_csv"
    /\ LET r == write_json_to_csv(data, downsample, keys_to_include)
       IN  ret' = r.ret /\ dest' = r.dest
    /\ UNCHANGED <<data, from_time, to_time, downsample, add_placemarks,
                   placemark_downsample, keys_to_include, tcs>>
    /\ UNCHANGED gui

\* export_csv(data, output_file) takes neither a factor nor a column set
MainCsv ==
    /\ op = "init"
    /\ downsample = 0
    /\ keys_to_include = PyNone
    /\ op' = "main.export_csv"
    /\ LET r == main_export_csv(data)
       IN  ret' = r.ret /\ dest' = r.dest
    /\ UNCHANGED <<data, from_time, to_time, downsample, add_placemarks,
                   placemark_downsample, keys_to_include, tcs>>
    /\ UNCHANGED gui

-----------------------------------------------------------------------------
(* Geospatial export: telemExplorer.py create_placemark, export_kml *)

CoordinateKeys == {"longitudeValue", "latitudeValue", "altitudeValue"}

\* (entry['longitudeValue'], entry['latitudeValue'], entry['altitudeValue'])
Coordinates(entry) ==
    <<Item(entry, "longitudeValue"), Item(entry, "latitudeValue"),
      Item(entry, "altitudeValue")>>

\* the items of entry whose key is not in excluded
ItemsExcept(entry, excluded) ==
    SelectSeq(entry, LAMBDA kv : kv[1] \notin excluded)

\* str(value), the text an f-string or str() gives (the input values are
\* strings and non-negative integers)
StrOf(v) == PyStr(CsvCell(v))

\* the items with every value through str()
StrItems(items) ==
    [k \in 1..Len(items) |-> <<items[k][1], StrOf(items[k][2])>>]

create_placemark(entry) ==
    IF ~HasKey(entry, "tc") THEN Raise("KeyError")
    ELSE IF \E k \in CoordinateKeys : ~HasKey(entry, k) THEN Raise("KeyError")
    ELSE Return([type          |-> "Point",
                 name          |-> Item(entry, "tc"),
                 description   |-> StrItems(ItemsExcept(entry, {"tc"})),
                 geometry      |-> Coordinates(entry),
                 extended_data |->
                     StrItems(ItemsExcept(entry, CoordinateKeys \cup {"tc"}))])

LinePlacemark(line_string_coordinates) ==
    [type |-> "LineString", geometry |-> line_string_coordinates]

\* the document written by kml_file.write(k.to_string(...))
KmlFile(styles, features) ==
    [exists |-> TRUE, document |-> TRUE, styles |-> styles,
     features |-> features]

\* the file open(filename, 'w') leaves when to_string raises: no document
EmptyFile ==
    [exists |-> TRUE, document |-> FALSE, styles |-> <<>>, features |-> <<>>]

\* lines 136-137: the file is opened, then the document is serialised.
\* fastkml is not part of this repository; whether it serialises a
\* LineString without coordinates or raises is left open, both are outcomes.
WriteKml(styles, features, coords) ==
    {Done(Return(PyNone),
          KmlFile(styles, Append(features, LinePlacemark(coords))))}
        \cup IF coords = <<>>
             THEN {Done(Raise("IndexError"), EmptyFile)}
             ELSE {}

\* the append to line_string_coordinates, were it indented into the
\* placemark branch
CollectCoordinatesWhenMarked(coords, entry, marked) ==
    IF marked THEN Append(coords, Coordinates(entry)) ELSE coords

\* line_string_coordinates.append(...): for every retained entry, whether
\* or not it got a placemark
CollectCoordinates(coords, entry, marked) ==
    Append(coords, Coordinates(entry))

\* the loop of export_kml from list position i (index = i - 1): features are
\* the placemarks appended to doc so far, coords the line_string_coordinates;
\* the file is opened only after the loop.  The result is the set of the
\* possible outcomes
RECURSIVE KmlLoop(_, _, _, _, _, _, _)
KmlLoop(d, i, factor, add, pfactor, features, coords) ==
    IF i > Len(d) THEN WriteKml(<<>>, features, coords)
    ELSE IF factor + 1 = 0 THEN {Done(Raise("ZeroDivisionError"), NoFile)}
    ELSE IF ~Retains(i - 1, factor)
    THEN KmlLoop(d, i + 1, factor, add, pfactor, features, coords)
    ELSE IF add /\ pfactor + 1 = 0
    THEN {Done(Raise("ZeroDivisionError"), NoFile)}
    ELSE LET marked    == add /\ Retains(i - 1, pfactor)
             placemark == create_placemark(d[i])
         IN  IF marked /\ placemark.status # "ok"
             THEN {Done(placemark, NoFile)}
             ELSE IF \E k \in CoordinateKeys : ~HasKey(d[i], k)
             THEN {Done(Raise("KeyError"), NoFile)}
             ELSE KmlLoop(d, i + 1, factor, add, pfactor,
                      IF marked THEN Append(features, placemark.value)
                      ELSE features,
                      CollectCoordinates(coords, d[i], marked))

export_kml(d, factor, add, pfactor) ==
    KmlLoop(d, 1, factor, add, pfactor, <<>>, <<>>)

-----------------------------------------------------------------------------
(* Geospatial export: main.py create_placemark, export_kml *)

\* entry.get(key, 0.0)
GetOrZero(entry, key) ==
    IF HasKey(entry, key) THEN Item(entry, key) ELSE PyInt(0)

main_create_placemark(entry) ==
    IF ~HasKey(entry, "tc") THEN Raise("KeyError")
    ELSE Return([type          |-> "Point",
                 id            |-> Item(entry, "tc"),   \* 'pmid-' + tc
                 name          |-> Item(entry, "tc"),
                 styleUrl      |-> "#pointstyle",
                 geometry      |-> <<GetOrZero(entry, "longitudeValue"),
                                     GetOrZero(entry, "latitudeValue"),
                                     GetOrZero(entry, "altitudeValue")>>,
                 extended_data |-> ItemsExcept(entry, CoordinateKeys)])

RECURSIVE MainKmlLoop(_, _, _)
MainKmlLoop(d, i, features) ==
    IF i > Len(d)
    THEN Done(Return(PyNone), KmlFile(<<"pointstyle">>, features))
    ELSE LET placemark == main_create_placemark(d[i])
         IN  IF placemark.status # "ok" THEN Done(placemark, NoFile)
             ELSE MainKmlLoop(d, i + 1, Append(features, placemark.value))

main_export_kml(d) == MainKmlLoop(d, 1, <<>>)

-----------------------------------------------------------------------------
(* Inputs of the geospatial export *)

\* a record at point n of a track, with the fields of fields
TrackRecord(n, fields) ==
    SelectSeq(<< <<"tc", PyStr(TcText(<<0, 0, n, 0>>))>>,
                 <<"longitudeValue", PyInt(n)>>,
                 <<"latitudeValue", PyInt(n + 10)>>,
                 <<"altitudeValue", PyInt(n + 20)>>,
                 <<"speed", PyInt(n + 30)>> >>,
              LAMBDA kv : kv[1] \in fields)

KmlRecords ==
    { TrackRecord(1, CoordinateKeys \cup {"tc"}),
      TrackRecord(2, CoordinateKeys \cup {"tc", "speed"}),
      TrackRecord(3, {"tc", "longitudeValue", "latitudeValue"}),
      TrackRecord(4, CoordinateKeys) }

-----------------------------------------------------------------------------
(* Calls of the geospatial exporters *)

InitKml ==
    /\ Idle
    /\ NoFilterArgs
    /\ tcs = <<>>
    /\ keys_to_include = PyNone
    /\ data \in SeqsUpTo(KmlRecords, MaxKmlRecords)
    /\ downsample \in DownsampleFactors
    /\ add_placemarks \in BOOLEAN
    /\ placemark_downsample \in DownsampleFactors

\* export_kml takes no column set
TelemKml ==
    /\ op = "init"
    /\ keys_to_include = PyNone
    /\ op' = "telemExplorer.export_kml"
    /\ \E r \in export_kml(data, downsample, add_placemarks,
                           placemark_downsample) :
           ret' = r.ret /\ dest' = r.dest
    /\ UNCHANGED <<data, from_time, to_time, downsample, add_placemarks,
                   placemark_downsample, keys_to_include, tcs>>
    /\ UNCHANGED gui

\* export_kml(data, output_file) takes no factor and no placemark option
MainKml ==
    /\ op = "init"
    /\ downsample = 0
    /\ add_placemarks
    /\ placemark_downsample = 0
    /\ keys_to_include = PyNone
    /\ op' = "main.export_kml"
    /\ LET r == main_export_kml(data)
       IN  ret' = r.ret /\ dest' = r.dest
    /\ UNCHANGED <<data, from_time, to_time, downsample, add_placemarks,
                   placemark_downsample, keys_to_include, tcs>>
    /\ UNCHANGED gui

-----------------------------------------------------------------------------
(* Specification of the exporters: one export of a record sequence *)

InitExport == InitCsv \/ InitKml

NextExport == TelemCsv \/ MainCsv \/ TelemKml \/ MainKml

SpecExport == InitExport /\ [][NextExport]_vars

-----------------------------------------------------------------------------
(* Properties of the exporters *)

CsvOps == {"telemExplorer.write_json_to_csv", "main.export_csv"}

KmlOps == {"telemExplorer.export_kml", "main.export_kml"}

CeilDiv(a, b) == (a + b - 1) \div b

\* the 0-based positions p < n with p mod (N + 1) = 0, ascending
RetainedPositions(n, N) ==
    SelectSeq([i \in 1..n |-> i - 1], LAMBDA p : p % (N + 1) = 0)

\* the records of d at the retained positions, in input order
Downsampled(d, N) ==
    LET pos == RetainedPositions(Len(d), N)
    IN  [j \in 1..Len(pos) |-> d[pos[j] + 1]]

\* the cell of the specification: the value's text, '' if the field is absent
SpecCell(r, key) == IF HasKey(r, key) THEN CsvCell(Item(r, key)) ELSE <<>>

SpecRows(d, keys) ==
    [j \in 1..Len(d) |-> [k \in 1..Len(keys) |-> SpecCell(d[j], keys[k])]]

\* the columns a tabular export of d uses
ColumnsUsed(d) ==
    IF keys_to_include.kind = "None"
    THEN IF d = <<>> THEN <<>> ELSE Keys(d[1])
    ELSE keys_to_include.list

PathFeatures(file) == SelectSeq(file.features, LAMBDA f : f.type = "LineString")

PointFeatures(file) == SelectSeq(file.features, LAMBDA f : f.type = "Point")

CoordinatesOf(d) == [j \in 1..Len(d) |-> Coordinates(d[j])]

\* C3: for a factor N >= 0 the rows write_json_to_csv writes and the track
\* points export_kml collects are the records at the 0-based positions p
\* with p mod (N+1) = 0, in input order; there are ceil(len/(N+1)) of them,
\* and N = 0 keeps every record.
C3_DownsampleRetained ==
    downsample >= 0 =>
        /\ op = "telemExplorer.write_json_to_csv" =>
               /\ dest.exists
               /\ dest.rows = SpecRows(Downsampled(data, downsample),
                                       ColumnsUsed(data))
               /\ Len(dest.rows) = CeilDiv(Len(data), downsample + 1)
               /\ (downsample = 0 => Len(dest.rows) = Len(data))
        /\ (op = "telemExplorer.export_kml" /\ ret.status = "ok") =>
               /\ Len(PathFeatures(dest)) = 1
               /\ PathFeatures(dest)[1].geometry
                      = CoordinatesOf(Downsampled(data, downsample))
               /\ Len(PathFeatures(dest)[1].geometry)
                      = CeilDiv(Len(data), downsample + 1)
               /\ (downsample = 0 =>
                      Len(PathFeatures(dest)[1].geometry) = Len(data))

\* C3 witness: three records written with factor 1 leave two rows.
C3_Witness ==
    /\ op = "telemExplorer.write_json_to_csv"
    /\ downsample = 1
    /\ Len(data) = 3
    /\ ret.status = "ok"
    /\ Len(dest.rows) = 2
    /\ dest.rows[1] # dest.rows[2]

\* what an export has retained or written of the records
NothingRetained ==
    \/ ~dest.exists
    \/ op \in CsvOps /\ dest.rows = <<>>

\* C4: a negative factor fails with InvalidDownsampleFactor and retains or
\* writes no record.  The code defines no exception of its own, so any
\* exception is taken for the error the claim names.
C4_NegativeFactorRejected ==
    (op \in {"telemExplorer.write_json_to_csv", "telemExplorer.export_kml"}
        /\ downsample < 0 /\ data # <<>>)
        => (ret.status # "ok" /\ NothingRetained)

\* the placemarks of a second downsample pass over the track's records
SecondPassPlacemarks(d, N, P) ==
    LET marked == Downsampled(Downsampled(d, N), P)
    IN  [j \in 1..Len(marked) |-> create_placemark(marked[j]).value]

\* C5: with add_placemarks the point features are those of the records at
\* positions q with q mod (placemark_downsample+1) = 0 of the sequence the
\* track downsample retained.
C5_PlacemarksSecondPass ==
    (op = "telemExplorer.export_kml" /\ ret.status = "ok" /\ add_placemarks
        /\ downsample >= 0 /\ placemark_downsample >= 0)
        => PointFeatures(dest)
               = SecondPassPlacemarks(data, downsample, placemark_downsample)

\* the path of another successful export of the same data and factor
SamePathWith(add, pfactor) ==
    \A other \in export_kml(data, downsample, add, pfactor) :
        other.ret.status = "ok"
            => PathFeatures(other.dest) = PathFeatures(dest)

\* C6: a successful export_kml writes exactly one path feature; its
\* coordinates are the track-downsampled points in input order, and they do
\* not depend on add_placemarks or placemark_downsample.
C6_SinglePath ==
    (op = "telemExplorer.export_kml" /\ ret.status = "ok") =>
        /\ dest.exists
        /\ Len(PathFeatures(dest)) = 1
        /\ (downsample >= 0 =>
               PathFeatures(dest)[1].geometry
                   = CoordinatesOf(Downsampled(data, downsample)))
        /\ \A add \in BOOLEAN, pfactor \in DownsampleFactors :
               SamePathWith(add, pfactor)

\* C6 witness: a track of two points of three records, exported without
\* placemarks.
C6_Witness ==
    /\ op = "telemExplorer.export_kml"
    /\ ret.status = "ok"
    /\ ~add_placemarks
    /\ downsample = 1
    /\ Len(data) = 3
    /\ Len(PointFeatures(dest)) = 0
    /\ Len(PathFeatures(dest)[1].geometry) = 2

\* C7: a geospatial export of no records fails with EmptyInput and leaves
\* the destination alone (neither created nor overwritten).  Any exception
\* is taken for the error the claim names.
C7_EmptyKmlRejected ==
    (op \in KmlOps /\ data = <<>> /\ downsample >= 0
        /\ placemark_downsample >= 0)
        => (ret.status # "ok" /\ dest = NoFile)

\* C8: a tabular export of no records without a column set fails with
\* EmptyInput; it does not succeed silently.  Any exception is taken for
\* the error the claim names.
C8_EmptyCsvRejected ==
    (op \in CsvOps /\ data = <<>> /\ keys_to_include = PyNone
        /\ downsample >= 0)
        => ret.status # "ok"

\* header and rows of an export that takes its columns from the first record
FirstRecordTable ==
    /\ ret.status = "ok"
    /\ dest.exists
    /\ dest.header = <<Keys(data[1])>>
    /\ dest.rows = SpecRows(Downsampled(data, downsample), Keys(data[1]))

\* C9: without a column set the header is the first record's keys in their
\* order, each retained record gives one row of its values for those keys
\* ('' where it lacks one), and the export succeeds whatever other fields
\* later records carry.
C9_FirstRecordColumns ==
    (op \in CsvOps /\ keys_to_include = PyNone /\ data # <<>>
        /\ downsample >= 0)
        => FirstRecordTable

\* C9, for telemExplorer.py's write_json_to_csv alone (this much holds).
C9_TelemFirstRecordColumns ==
    op = "telemExplorer.write_json_to_csv" => C9_FirstRecordColumns

-----------------------------------------------------------------------------
(* Specification of the codec: two canonical timecodes are converted *)

\* minutes and seconds at the ends of their range, every frame of a second
CodecTimecodes ==
    {<<h, m, s, f>> : h \in 0..MaxHour, m \in {0, 59}, s \in {0, 1, 59},
                      f \in 0..(FrameRate - 1)}

InitTimecode ==
    /\ Idle
    /\ NoFilterArgs
    /\ NoExportArgs
    /\ data = <<>>
    /\ \E a \in CodecTimecodes, b \in CodecTimecodes :
           tcs = <<PyStr(TcText(a)), PyStr(TcText(b))>>

Convert ==
    /\ op = "init"
    /\ op' = "telemExplorer.timecode_to_milliseconds"
    /\ ret' = Return([i \in 1..Len(tcs) |-> timecode_to_milliseconds(tcs[i])])
    /\ UNCHANGED <<data, from_time, to_time, downsample, add_placemarks,
                   placemark_downsample, keys_to_include, tcs, dest>>
    /\ UNCHANGED gui

NextTimecode == Convert

SpecTimecode == InitTimecode /\ [][NextTimecode]_vars

-----------------------------------------------------------------------------
(* Properties of the codec *)

\* (H, M, S, F) read off the fixed columns of a canonical HH:MM:SS:FF text
TupleOf(t) ==
    LET c == t.chars
    IN  <<c[1] * 10 + c[2], c[4] * 10 + c[5], c[7] * 10 + c[8],
          c[10] * 10 + c[11]>>

\* a precedes b in the lexicographic order of 4-tuples
LexLess(a, b) ==
    \E k \in 1..4 : a[k] < b[k] /\ \A j \in 1..(k - 1) : a[j] = b[j]

\* C10: at 30 frames per second timecode_to_milliseconds is strictly
\* increasing in the lexicographic order of (H, M, S, F), is 1000 for
\* 00:00:01:00 and 966 for 00:00:00:29, and is
\* (H*3600 + M*60 + S)*1000 + F*1000/30 with the frame term truncated.
C10_MillisIncreasing ==
    op = "telemExplorer.timecode_to_milliseconds" =>
        LET a   == TupleOf(tcs[1])
            b   == TupleOf(tcs[2])
            msA == ret.value[1]
            msB == ret.value[2]
        IN  /\ msA.status = "ok" /\ msB.status = "ok"
            /\ (LexLess(a, b) => msA.value < msB.value)
            /\ (a = <<0, 0, 1, 0>> => msA.value = 1000)
            /\ (a = <<0, 0, 0, 29>> => msA.value = 966)
            /\ msA.value = (a[1] * 3600 + a[2] * 60 + a[3]) * 1000
                               + (a[4] * 1000) \div 30

\* C10 witness: 00:00:00:29 and 00:00:01:00 converted, to 966 and 1000.
C10_Witness ==
    /\ op = "telemExplorer.timecode_to_milliseconds"
    /\ TupleOf(tcs[1]) = <<0, 0, 0, 29>>
    /\ TupleOf(tcs[2]) = <<0, 0, 1, 0>>
    /\ ret.value[1].value = 966
    /\ ret.value[2].value = 1000

-----------------------------------------------------------------------------
(* Properties of the range filter: records without a usable timecode, and *)
(* the two implementations against each other                             *)

\* the record has no tc field, or one the codec does not accept
LacksTimecode(r) == ~HasKey(r, "tc") \/ ~Parses(Item(r, "tc"))

\* C11: when filter_data (either implementation) is given a bound and meets
\* a record without tc, or with a tc that is not four integers, the call
\* ends in an error: no result is returned as a success, so the record is
\* neither included nor compared.  Any exception is taken for the errors the
\* claim names.
C11_BadRecordRejected ==
    (/\ op \in FilterOps
     /\ BoundGiven(from_time) /\ BoundGiven(to_time)
     /\ (from_time # PyNone \/ to_time # PyNone)
     /\ \E i \in 1..Len(data) : LacksTimecode(data[i]))
        => ret.status # "ok"

\* C11, for telemExplorer.py's filter_data alone (this much holds).
C11_TelemBadRecordRejected ==
    op = "telemExplorer.filter_data" => C11_BadRecordRejected

\* t is a zero-padded HH:MM:SS:FF text with M, S in 0..59 and F in 0..29
Canonical(t) ==
    /\ t.kind = "str"
    /\ Len(t.chars) = 11
    /\ \A k \in 1..11 : (t.chars[k] = Colon) <=> (k \in {3, 6, 9})
    /\ TupleOf(t)[2] <= 59
    /\ TupleOf(t)[3] <= 59
    /\ TupleOf(t)[4] <= FrameRate - 1

CanonicalCase ==
    /\ op \in FilterOps
    /\ from_time = PyNone \/ Canonical(from_time)
    /\ to_time = PyNone \/ Canonical(to_time)
    /\ \A i \in 1..Len(data) :
           HasKey(data[i], "tc") /\ Canonical(Item(data[i], "tc"))

\* C12: on records with canonical timecodes and canonical or absent bounds,
\* main.py's filter_data (string comparison) and telemExplorer.py's
\* filter_data (millisecond comparison) return the same records.
C12_FiltersAgree ==
    CanonicalCase =>
        /\ ret.status = "ok"
        /\ op = "main.filter_data"
               => ret = filter_data(data, from_time, to_time)
        /\ op = "telemExplorer.filter_data"
               => ret = main_filter_data(data, from_time, to_time)

\* C12 witness: main.py's filter_data, given two canonical bounds and two
\* records with canonical timecodes, kept one and dropped the other.
C12_Witness ==
    /\ CanonicalCase
    /\ op = "main.filter_data"
    /\ from_time # PyNone /\ to_time # PyNone
    /\ Len(data) = 2
    /\ ret.status = "ok"
    /\ Len(ret.value) = 1

-----------------------------------------------------------------------------
(* Graphical shell: telemExplorer.py find_dlog_files, unzip_files,         *)
(* combine_json_files, Application.select_folder / unzip_files /           *)
(* refresh_data                                                            *)

FolderNames == {"A", "B"}

\* a *.dlog file is a JSON array of objects: empty objects only, or a record
DlogFiles == { << <<>> >>, << <<>>, TcRecord(TcText(<<0, 0, 1, 0>>)) >> }

\* a folder: the contents of its *.dlog files and of its *.dlog.gz files in
\* listing order, and whether unzip_files has made its subfolder (named
\* after the first archive), which then holds the extracted files
FolderContents ==
    [dlogs    : SeqsUpTo(DlogFiles, MaxFiles),
     gz       : SeqsUpTo(DlogFiles, MaxFiles),
     unzipped : {FALSE}]

\* a directory: a folder, or the subfolder unzip_files makes in it
Path(dir, sub) == [dir |-> dir, sub |-> sub]

\* the directories filedialog.askdirectory can return
ExistingPaths ==
    {Path(f, FALSE) : f \in FolderNames}
        \cup {Path(f, TRUE) : f \in {g \in FolderNames : fs[g].unzipped}}

\* askdirectory returns '' when the dialog is cancelled
Cancelled == [dir |-> "", sub |-> FALSE]

\* [file for file in os.listdir(folder_path) if file.endswith('.gz')]
GzFiles(path) == IF path.sub THEN <<>> ELSE fs[path.dir].gz

\* glob.glob(folder_path + '/*.dlog'): the files' contents
find_dlog_files(path) ==
    IF path.sub THEN fs[path.dir].gz ELSE fs[path.dir].dlogs

\* [j for j in json_data if j]: an empty object is false
NonEmptyJson(file) == SelectSeq(file, LAMBDA j : j # <<>>)

RECURSIVE combine_json_files(_)
combine_json_files(file_list) ==
    IF file_list = <<>> THEN <<>>
    ELSE NonEmptyJson(Head(file_list)) \o combine_json_files(Tail(file_list))

\* config(state=...) of the unzip button: are there *.gz files
UnzipState(path) == IF GzFiles(path) # <<>> THEN "normal" ELSE "disabled"

\* config(state=...) of the refresh button: are there *.dlog files
RefreshState(path) ==
    IF find_dlog_files(path) # <<>> THEN "normal" ELSE "disabled"

\* `if combined_json:` sets both export buttons normal; there is no else
ExportState(current, combined_json) ==
    IF combined_json # <<>> THEN "normal" ELSE current

GuiFrame ==
    UNCHANGED <<data, from_time, to_time, downsample, add_placemarks,
                placemark_downsample, keys_to_include, tcs, ret, dest>>

\* select_folder: a cancelled dialog keeps the old folder_path; without one,
\* os.listdir(self.folder_path) raises AttributeError and the callback ends
SelectFolder ==
    /\ \E choice \in ExistingPaths \cup {Cancelled} :
           LET path == IF choice = Cancelled THEN self_folder_path ELSE choice
           IN  /\ self_folder_path' = path
               /\ buttons' =
                      IF path = Unset THEN buttons
                      ELSE [buttons EXCEPT
                                !["unzip_files"] = UnzipState(path),
                                !["refresh_data"] = RefreshState(path)]
    /\ op' = "Application.select_folder"
    /\ UNCHANGED <<self_json_data, fs>>
    /\ GuiFrame

\* the Unzip Files button (a disabled button runs no command): the archives
\* are extracted into the subfolder, then the refresh button is set again
\* from the *.dlog files of self_folder_path itself
UnzipFiles ==
    /\ buttons["unzip_files"] = "normal"
    /\ IF GzFiles(self_folder_path) = <<>>
       THEN UNCHANGED <<fs, buttons>>         \* gz_files[0]: IndexError
       ELSE /\ fs' = [fs EXCEPT ![self_folder_path.dir].unzipped = TRUE]
            /\ buttons' = [buttons EXCEPT
                              !["refresh_data"] = RefreshState(self_folder_path)]
    /\ op' = "Application.unzip_files"
    /\ UNCHANGED <<self_folder_path, self_json_data>>
    /\ GuiFrame

\* the Refresh Data button
RefreshData ==
    /\ buttons["refresh_data"] = "normal"
    /\ IF self_folder_path = Unset
       THEN UNCHANGED <<self_json_data, buttons>>
       ELSE LET combined_json ==
                    combine_json_files(find_dlog_files(self_folder_path))
            IN  /\ self_json_data' = combined_json
                /\ buttons' = [buttons EXCEPT
                       !["export_csv"] =
                           ExportState(buttons["export_csv"], combined_json),
                       !["export_kml"] =
                           ExportState(buttons["export_kml"], combined_json)]
    /\ op' = "Application.refresh_data"
    /\ UNCHANGED <<self_folder_path, fs>>
    /\ GuiFrame

InitGui ==
    /\ op = "init"
    /\ ret = PyNone
    /\ dest = NoFile
    /\ NoFilterArgs
    /\ NoExportArgs
    /\ tcs = <<>>
    /\ data = <<>>
    /\ WidgetsCreated
    /\ fs \in [FolderNames -> FolderContents]

NextGui == SelectFolder \/ UnzipFiles \/ RefreshData

SpecGui == InitGui /\ [][NextGui]_vars

-----------------------------------------------------------------------------
(* Properties of the graphical shell *)

ExportButtons == {"export_csv", "export_kml"}

=============================================================================
